---------------------------- MODULE Spec2Model ----------------------------
(***************************************************************************)
(* Model of src/src/components/GameOfLife.jsx.  The file holds two         *)
(* versions of the GameOfLife component:                                   *)
(*   - lines 1-196, the "timeout" variant: runSimulation re-arms itself    *)
(*     with setTimeout and its survival rule has random terms;             *)
(*   - lines 197-362, the "interval" variant: toggleSimulation starts a    *)
(*     setInterval, kept in intervalRef, with the standard rule.           *)
(* Definitions of the first variant keep the source's names; those of the  *)
(* second carry the suffix Interval.                                       *)
(*                                                                         *)
(* A grid is a sequence of rows, a row a sequence of BOOLEAN.  The source  *)
(* indexes from 0, TLA+ sequences from 1: the cell (x, y) of the source is *)
(* g[y + 1][x + 1].                                                        *)
(*                                                                         *)
(* Every event handler and timer callback runs to completion on the single *)
(* JavaScript thread and React applies its state updates before the next   *)
(* handler runs, so each handler is one atomic action.  A state updater is *)
(* run once per update (no StrictMode double invocation).  Pending timers  *)
(* may fire in any order.  generationRef (line 10) is only ever written    *)
(* (line 97) and is left out.                                              *)
(*                                                                         *)
(* createInitialGrid throws at its first noise entry (see below), so the   *)
(* mount effect fails and React removes the component before a button can  *)
(* be pressed.  The handlers are therefore also run from InitMounted, the  *)
(* states of a mounted component that holds a grid: no run of the code     *)
(* gets there, they are what the handlers and the timer callbacks are      *)
(* written for.                                                            *)
(***************************************************************************)
EXTENDS Integers, Sequences, FiniteSets, Bags

\* Model bounds.  The source's grid is 60 x 40 with 100 noise cells.
Width == 3
Height == 2
NoiseCount == 1
MaxRandom == 1
MaxGen == 2
MaxTimers == 2
MaxApply == 4
StepWidth == 4
StepHeight == 4
SeedWidth == 13
SeedHeight == 27

VARIABLES
    variant,      \* which of the two components of the file is mounted
    mounted,      \* has the mount effect (useEffect) run
    gridSize,     \* useState({ width, height })
    grid,         \* useState([])
    isRunning,    \* useState(false)
    generation,   \* useState(0)
    speed,        \* useState(100), in units of 1/(width*height) ms
    runningRef,   \* useRef(isRunning)
    intervalRef,  \* useRef(null) of the interval variant; 0 is null
    timeouts,     \* pending setTimeout(runSimulation, speed) calls: a bag of delays
    intervals,    \* active setInterval timers: records [id, delay]
    nextHandle,   \* the handle the next setInterval returns
    randomLeft,   \* how many more Math.random() draws may fall below their threshold
    op,           \* the handler that ran last
    steps,        \* history: applications of computeNextGeneration since the last reset
    prev,         \* history: the grid before the last application in SpecStep, SpecIterate
    input,        \* history: the grid the step function was first applied to
    applied,      \* history: how often the step function was applied to input
    drawn         \* history: the cells the last mutate of SpecMutate selected

vars == <<variant, mounted, gridSize, grid, isRunning, generation, speed,
          runningRef, intervalRef, timeouts, intervals, nextHandle,
          randomLeft, op, steps, prev, input, applied, drawn>>

Variants == {"timeout", "interval"}

-----------------------------------------------------------------------------
(* Helpers *)

\* The coordinates (x, y) of a width x height grid, 0-based as in the source.
Cells(gs) == (0 .. gs.width - 1) \X (0 .. gs.height - 1)

\* The subsets of S with at most k elements.
RECURSIVE SubsetsUpTo(_, _)
SubsetsUpTo(S, k) ==
    IF k = 0 THEN {{}}
    ELSE LET P == SubsetsUpTo(S, k - 1)
         IN  P \cup {p \cup {c} : p \in P, c \in S}

\* grid[y][x] of the source.
At(g, x, y) == g[y + 1][x + 1]

\* The grid of size gs whose live cells are those of live.
GridOf(gs, live) ==
    [r \in 1 .. gs.height |-> [c \in 1 .. gs.width |-> <<c - 1, r - 1>> \in live]]

\* grid.flat().filter(cell => cell).length
AliveCount(g) ==
    Cardinality(UNION {{<<r, c>> : c \in {k \in 1 .. Len(g[r]) : g[r][k]}} :
                          r \in 1 .. Len(g)})

Max(a, b) == IF a >= b THEN a ELSE b

-----------------------------------------------------------------------------
(* The seed operation *)

\* The literal coordinate sets [x, y] of the patterns array.
blockPattern == {<<1, 25>>, <<2, 25>>, <<1, 26>>, <<2, 26>>}
gliderPattern == {<<10, 10>>, <<11, 11>>, <<12, 11>>, <<12, 10>>, <<12, 9>>}

\* The values of Math.random() the model draws for a noise coordinate, in
\* hundredths: the least value and one that rounds to the last index.
RandomValues == {0, 99}

\* Math.floor(Math.random() * n) for the draw random = r / 100.
randomIndex(r, n) == (r * n) \div 100

\* The outcomes of the noise entries of the patterns array: every entry is
\* [floor(random * width), floor(random * height)] for two draws in [0, 1),
\* and there is at least one entry (100 in the source, NoiseCount here).
NoiseDraws(gs) ==
    LET entries == {<<randomIndex(rx, gs.width), randomIndex(ry, gs.height)>> :
                        rx \in RandomValues, ry \in RandomValues}
    IN  SubsetsUpTo(entries, NoiseCount) \ {{}}

\* createInitialGrid of the timeout variant; noise holds the noise entries.
\* rows starts all false.  patterns holds the two literal patterns and then,
\* spread into it by ..., the noise entries themselves: each entry [x, y] is
\* a pattern of its own, whose elements are the numbers x and y.  The outer
\* forEach marks the cells of the two literal patterns that pass the bounds
\* check; at the first noise entry the callback of the inner forEach
\* destructures a number as [x, y], which throws TypeError (a number is not
\* iterable).  threw says whether the call ended that way, rows is the array
\* as the call left it, returned when nothing was thrown.
createInitialGrid(gs, noise) ==
    LET marked == {p \in blockPattern \cup gliderPattern :
                      /\ p[1] >= 0 /\ p[1] < gs.width
                      /\ p[2] >= 0 /\ p[2] < gs.height}
    IN  [threw |-> noise # {}, rows |-> GridOf(gs, marked)]

\* createInitialGrid of the interval variant: the same patterns array and
\* the same two loops.
createInitialGridInterval(gs, noise) ==
    LET marked == {p \in blockPattern \cup gliderPattern :
                      /\ p[1] >= 0 /\ p[1] < gs.width
                      /\ p[2] >= 0 /\ p[2] < gs.height}
    IN  [threw |-> noise # {}, rows |-> GridOf(gs, marked)]

-----------------------------------------------------------------------------
(* The step operation *)

\* The (dx, dy) the two nested loops visit, the centre skipped by continue.
Offsets == {d \in (-1 .. 1) \X (-1 .. 1) : ~(d[1] = 0 /\ d[2] = 0)}

\* liveNeighbors with the continue for dx = dy = 0 left out.
liveNeighborsWithCentre(g, gs, x, y) ==
    Cardinality({d \in (-1 .. 1) \X (-1 .. 1) :
                    LET newY == y + d[2]
                        newX == x + d[1]
                    IN  /\ newY >= 0 /\ newY < gs.height
                        /\ newX >= 0 /\ newX < gs.width
                        /\ At(g, newX, newY)})

\* liveNeighbors after the loops of the timeout variant: one is added for
\* every visited offset that is inside gridSize and alive in the old grid.
liveNeighbors(g, gs, x, y) ==
    Cardinality({d \in Offsets :
                    LET newY == y + d[2]
                        newX == x + d[1]
                    IN  /\ newY >= 0 /\ newY < gs.height
                        /\ newX >= 0 /\ newX < gs.width
                        /\ At(g, newX, newY)})

\* liveNeighbors of the interval variant with dx < 1 for dx <= 1.
liveNeighborsIntervalOffByOne(g, gs, x, y) ==
    Cardinality({d \in {e \in Offsets : e[1] < 1} :
                    LET newY == y + d[2]
                        newX == x + d[1]
                    IN  /\ newY >= 0 /\ newY < gs.height
                        /\ newX >= 0 /\ newX < gs.width
                        /\ At(g, newX, newY)})

\* liveNeighbors of the interval variant.
liveNeighborsInterval(g, gs, x, y) ==
    Cardinality({d \in Offsets :
                    LET newY == y + d[2]
                        newX == x + d[1]
                    IN  /\ newY >= 0 /\ newY < gs.height
                        /\ newX >= 0 /\ newX < gs.width
                        /\ At(g, newX, newY)})

\* The rule of the timeout variant with a draw that negates Conway's outcome.
survivesFlips(cell, n, lucky) ==
    IF cell
    THEN (n = 2 \/ n = 3) # lucky
    ELSE (n = 3) # lucky

\* The rule of the timeout variant without the && liveNeighbors > 1.
survivesAnyCount(cell, n, lucky) ==
    IF cell
    THEN n = 2 \/ n = 3 \/ lucky
    ELSE n = 3 \/ lucky

\* The survival rule of the timeout variant for one cell; lucky says whether
\* the cell's Math.random() draw fell below its threshold (0.05 or 0.01).
survives(cell, n, lucky) ==
    IF cell
    THEN n = 2 \/ n = 3 \/ (lucky /\ n > 1)
    ELSE n = 3 \/ (lucky /\ n > 1)

\* The rule of the interval variant with survival on 2 neighbours only.
survivesIntervalTwoOnly(cell, n) ==
    IF cell
    THEN n = 2
    ELSE n = 3

\* The rule of the interval variant for one cell.
survivesInterval(cell, n) ==
    IF cell
    THEN n = 2 \/ n = 3
    ELSE n = 3

\* computeNextGeneration of the timeout variant; lucky is the set of cells
\* whose Math.random() draw fell below the threshold.
computeNextGeneration(g, gs, lucky) ==
    [r \in 1 .. Len(g) |->
        [c \in 1 .. Len(g[r]) |->
            survives(g[r][c], liveNeighbors(g, gs, c - 1, r - 1),
                     <<c - 1, r - 1>> \in lucky)]]

\* computeNextGeneration of the interval variant stopping one row early.
computeNextGenerationIntervalShort(g, gs) ==
    [r \in 1 .. Len(g) - 1 |->
        [c \in 1 .. Len(g[r]) |->
            survivesInterval(g[r][c], liveNeighborsInterval(g, gs, c - 1, r - 1))]]

\* computeNextGeneration of the interval variant.
computeNextGenerationInterval(g, gs) ==
    [r \in 1 .. Len(g) |->
        [c \in 1 .. Len(g[r]) |->
            survivesInterval(g[r][c], liveNeighborsInterval(g, gs, c - 1, r - 1))]]

\* newSpeed with the live-cell term added instead of subtracted.
newSpeedPlus(nextGrid, gs) ==
    Max(50 * gs.width * gs.height,
        200 * gs.width * gs.height + AliveCount(nextGrid) * 150)

\* newSpeed of runSimulation, Math.max(50, 200 - aliveCells / (w * h) * 150),
\* in units of 1/(w * h) ms so that it stays an integer.
newSpeed(nextGrid, gs) ==
    Max(50 * gs.width * gs.height,
        200 * gs.width * gs.height - AliveCount(nextGrid) * 150)

\* The outcomes of the draws of one pass over the grid: the sets of cells
\* whose draw fell below the threshold, at most randomLeft of them.
LuckyDraws == SubsetsUpTo(Cells(gridSize), randomLeft)

-----------------------------------------------------------------------------
(* The component: construction and mount *)

\* The useState and useRef initial values of either variant.
Init ==
    /\ variant \in Variants
    /\ mounted = FALSE
    /\ gridSize = [width |-> Width, height |-> Height]
    /\ grid = <<>>
    /\ isRunning = FALSE
    /\ generation = 0
    /\ speed = 100 * Width * Height
    /\ runningRef = FALSE
    /\ intervalRef = 0
    /\ timeouts = EmptyBag
    /\ intervals = {}
    /\ nextHandle = 1
    /\ randomLeft = MaxRandom
    /\ op = "init"
    /\ steps = 0
    /\ prev = <<>>
    /\ input = <<>>
    /\ applied = 0
    /\ drawn = {}

\* The live cells of the grids the handlers are run on: none, one corner,
\* and the whole top row.
MountedLiveSets == {{}, {<<0, 0>>}, {<<x, 0>> : x \in 0 .. Width - 1}}

\* A mounted component that holds a grid and is stopped.
InitMounted ==
    /\ variant \in Variants
    /\ mounted = TRUE
    /\ gridSize = [width |-> Width, height |-> Height]
    /\ \E live \in MountedLiveSets : grid = GridOf(gridSize, live)
    /\ isRunning = FALSE
    /\ generation = 0
    /\ speed = 100 * Width * Height
    /\ runningRef = FALSE
    /\ intervalRef = 0
    /\ timeouts = EmptyBag
    /\ intervals = {}
    /\ nextHandle = 1
    /\ randomLeft = MaxRandom
    /\ op = "init"
    /\ steps = 0
    /\ prev = <<>>
    /\ input = <<>>
    /\ applied = 0
    /\ drawn = {}

\* The mount effect of the timeout variant: setGrid(createInitialGrid()).  It
\* runs once, right after construction and before any button can be pressed.
\* When createInitialGrid throws, setGrid is not called and React removes
\* the component, as it does on every error thrown by an effect.
Mount ==
    /\ variant = "timeout"
    /\ ~mounted
    /\ op = "init"
    /\ \E noise \in NoiseDraws(gridSize) :
          LET seed == createInitialGrid(gridSize, noise)
          IN  IF seed.threw
              THEN UNCHANGED <<mounted, grid>>
              ELSE /\ mounted' = TRUE
                   /\ grid' = seed.rows
    /\ op' = "mount"
    /\ UNCHANGED <<drawn, prev, variant, gridSize, isRunning, generation, speed, runningRef,
                   intervalRef, timeouts, intervals, nextHandle, randomLeft,
                   steps, input, applied>>

\* The mount effect of the interval variant.
MountInterval ==
    /\ variant = "interval"
    /\ ~mounted
    /\ op = "init"
    /\ \E noise \in NoiseDraws(gridSize) :
          LET seed == createInitialGridInterval(gridSize, noise)
          IN  IF seed.threw
              THEN UNCHANGED <<mounted, grid>>
              ELSE /\ mounted' = TRUE
                   /\ grid' = seed.rows
    /\ op' = "mount"
    /\ UNCHANGED <<drawn, prev, variant, gridSize, isRunning, generation, speed, runningRef,
                   intervalRef, timeouts, intervals, nextHandle, randomLeft,
                   steps, input, applied>>

-----------------------------------------------------------------------------
(* The timeout variant *)

\* runSimulation without its first line, the return when not running.
runSimulationUnguarded(delay, running, pending) ==
    /\ generation < MaxGen
    /\ \E lucky \in LuckyDraws :
          /\ grid' = computeNextGeneration(grid, gridSize, lucky)
          /\ randomLeft' = randomLeft - Cardinality(lucky)
    /\ generation' = generation + 1
    /\ speed' = newSpeed(grid', gridSize)
    /\ timeouts' = pending (+) SetToBag({delay})
    /\ steps' = steps + 1

\* runSimulation arming the next timeout before it looks at runningRef.
runSimulationRearms(delay, running, pending) ==
    IF ~running
    THEN /\ timeouts' = pending (+) SetToBag({delay})
         /\ UNCHANGED <<grid, generation, speed, randomLeft, steps>>
    ELSE /\ generation < MaxGen
         /\ \E lucky \in LuckyDraws :
               /\ grid' = computeNextGeneration(grid, gridSize, lucky)
               /\ randomLeft' = randomLeft - Cardinality(lucky)
         /\ generation' = generation + 1
         /\ speed' = newSpeed(grid', gridSize)
         /\ timeouts' = pending (+) SetToBag({delay})
         /\ steps' = steps + 1

\* runSimulation as called with runningRef.current = running, by a closure
\* whose captured speed is delay, when the other pending timeouts are pending.
\* It returns at once when not running; otherwise the setGrid updater steps
\* the grid, counts the generation and sets the speed, and the closure re-arms
\* itself with its own captured speed.
runSimulation(delay, running, pending) ==
    IF ~running
    THEN /\ timeouts' = pending
         /\ UNCHANGED <<grid, generation, speed, randomLeft, steps>>
    ELSE /\ generation < MaxGen
         /\ \E lucky \in LuckyDraws :
               /\ grid' = computeNextGeneration(grid, gridSize, lucky)
               /\ randomLeft' = randomLeft - Cardinality(lucky)
         /\ generation' = generation + 1
         /\ speed' = newSpeed(grid', gridSize)
         /\ timeouts' = pending (+) SetToBag({delay})
         /\ steps' = steps + 1

\* The Start/Pause button.  The closure it calls captured the speed of the
\* current render.
toggleSimulation ==
    /\ variant = "timeout"
    /\ mounted
    /\ LET nextRunningState == ~isRunning
       IN  /\ isRunning' = nextRunningState
           /\ runningRef' = nextRunningState
           /\ IF nextRunningState
              THEN /\ BagCardinality(timeouts) < MaxTimers
                   /\ runSimulation(speed, nextRunningState, timeouts)
              ELSE UNCHANGED <<grid, generation, speed, timeouts, randomLeft, steps>>
    /\ op' = "toggle"
    /\ UNCHANGED <<drawn, prev, variant, mounted, gridSize, intervalRef, intervals, nextHandle,
                   input, applied>>

\* A pending setTimeout(runSimulation, speed) fires: the closure that armed it
\* runs, reading runningRef.current.
TimeoutFires ==
    /\ variant = "timeout"
    /\ mounted
    /\ \E delay \in BagToSet(timeouts) :
          runSimulation(delay, runningRef, timeouts (-) SetToBag({delay}))
    /\ op' = "timer"
    /\ UNCHANGED <<drawn, prev, variant, mounted, gridSize, isRunning, runningRef, intervalRef,
                   intervals, nextHandle, input, applied>>

\* resetSimulation without setGeneration(0).
resetSimulationKeepsGeneration ==
    /\ variant = "timeout"
    /\ mounted
    /\ isRunning' = FALSE
    /\ runningRef' = FALSE
    /\ \E noise \in NoiseDraws(gridSize) :
          LET seed == createInitialGrid(gridSize, noise)
          IN  grid' = IF seed.threw THEN grid ELSE seed.rows
    /\ steps' = 0
    /\ op' = "reset"
    /\ UNCHANGED <<drawn, prev, variant, mounted, gridSize, generation, speed, intervalRef,
                   timeouts, intervals, nextHandle, randomLeft, input, applied>>

\* The Reset button.  setGrid(createInitialGrid()) comes last: when
\* createInitialGrid throws, the three updates before it stand and the grid
\* is left as it was.
resetSimulation ==
    /\ variant = "timeout"
    /\ mounted
    /\ isRunning' = FALSE
    /\ runningRef' = FALSE
    /\ generation' = 0
    /\ \E noise \in NoiseDraws(gridSize) :
          LET seed == createInitialGrid(gridSize, noise)
          IN  grid' = IF seed.threw THEN grid ELSE seed.rows
    /\ steps' = 0
    /\ op' = "reset"
    /\ UNCHANGED <<drawn, prev, variant, mounted, gridSize, speed, intervalRef, timeouts,
                   intervals, nextHandle, randomLeft, input, applied>>

\* mutateGrid's updater selecting every cell whatever the draw.
mutateAll(g, flips) ==
    [r \in 1 .. Len(g) |-> [c \in 1 .. Len(g[r]) |-> ~g[r][c]]]

\* mutateGrid's updater: the cells whose draw fell below 0.1 (flips) are
\* negated, the others are copied.
mutate(g, flips) ==
    [r \in 1 .. Len(g) |->
        [c \in 1 .. Len(g[r]) |->
            IF <<c - 1, r - 1>> \in flips THEN ~g[r][c] ELSE g[r][c]]]

\* The Mutate button: every cell whose draw falls below 0.1 is negated.
mutateGrid ==
    /\ variant = "timeout"
    /\ mounted
    /\ \E flips \in LuckyDraws :
          /\ grid' = mutate(grid, flips)
          /\ randomLeft' = randomLeft - Cardinality(flips)
    /\ op' = "mutate"
    /\ UNCHANGED <<drawn, prev, variant, mounted, gridSize, isRunning, generation, speed,
                   runningRef, intervalRef, timeouts, intervals, nextHandle,
                   steps, input, applied>>

-----------------------------------------------------------------------------
(* The interval variant *)

\* clearInterval(intervalRef.current): the timer with that handle, if it is
\* still active, is removed; null and stale handles clear nothing.
clearInterval(handle) == {t \in intervals : t.id # handle}

\* The Start/Pause button.
toggleSimulationInterval ==
    /\ variant = "interval"
    /\ mounted
    /\ LET nextRunningState == ~isRunning
       IN  /\ isRunning' = nextRunningState
           /\ runningRef' = nextRunningState
           /\ IF nextRunningState
              THEN /\ nextHandle <= MaxTimers
                   /\ intervals' = intervals \cup {[id |-> nextHandle, delay |-> speed]}
                   /\ intervalRef' = nextHandle
                   /\ nextHandle' = nextHandle + 1
              ELSE /\ intervals' = clearInterval(intervalRef)
                   /\ UNCHANGED <<intervalRef, nextHandle>>
    /\ op' = "toggle"
    /\ UNCHANGED <<drawn, prev, variant, mounted, gridSize, grid, generation, speed, timeouts,
                   randomLeft, steps, input, applied>>

\* The interval callback without setGeneration(prev => prev + 1).
IntervalFiresNoCount ==
    /\ variant = "interval"
    /\ mounted
    /\ intervals # {}
    /\ generation < MaxGen
    /\ grid' = computeNextGenerationInterval(grid, gridSize)
    /\ steps' = steps + 1
    /\ op' = "timer"
    /\ UNCHANGED <<drawn, prev, variant, mounted, gridSize, isRunning, generation, speed,
                   runningRef, intervalRef, timeouts, intervals, nextHandle,
                   randomLeft, input, applied>>

\* An active interval fires: its callback steps the grid and counts the
\* generation.  The timer stays active.
IntervalFires ==
    /\ variant = "interval"
    /\ mounted
    /\ intervals # {}
    /\ generation < MaxGen
    /\ grid' = computeNextGenerationInterval(grid, gridSize)
    /\ generation' = generation + 1
    /\ steps' = steps + 1
    /\ op' = "timer"
    /\ UNCHANGED <<drawn, prev, variant, mounted, gridSize, isRunning, speed, runningRef,
                   intervalRef, timeouts, intervals, nextHandle, randomLeft,
                   input, applied>>

\* resetSimulation of the interval variant without clearInterval.
resetSimulationIntervalNoClear ==
    /\ variant = "interval"
    /\ mounted
    /\ isRunning' = FALSE
    /\ generation' = 0
    /\ \E noise \in NoiseDraws(gridSize) :
          LET seed == createInitialGridInterval(gridSize, noise)
          IN  grid' = IF seed.threw THEN grid ELSE seed.rows
    /\ steps' = 0
    /\ op' = "reset"
    /\ UNCHANGED <<drawn, prev, variant, mounted, gridSize, speed, runningRef, intervalRef,
                   timeouts, intervals, nextHandle, randomLeft, input, applied>>

\* The Reset button; createInitialGrid is called last, as in the timeout
\* variant.
resetSimulationInterval ==
    /\ variant = "interval"
    /\ mounted
    /\ isRunning' = FALSE
    /\ intervals' = clearInterval(intervalRef)
    /\ generation' = 0
    /\ \E noise \in NoiseDraws(gridSize) :
          LET seed == createInitialGridInterval(gridSize, noise)
          IN  grid' = IF seed.threw THEN grid ELSE seed.rows
    /\ steps' = 0
    /\ op' = "reset"
    /\ UNCHANGED <<drawn, prev, variant, mounted, gridSize, speed, runningRef, intervalRef,
                   timeouts, nextHandle, randomLeft, input, applied>>

\* mutateGrid's updater of the interval variant.
mutateInterval(g, flips) ==
    [r \in 1 .. Len(g) |->
        [c \in 1 .. Len(g[r]) |->
            IF <<c - 1, r - 1>> \in flips THEN ~g[r][c] ELSE g[r][c]]]

\* mutateGrid also pausing the simulation, as resetSimulation does.
mutateGridIntervalPauses ==
    /\ variant = "interval"
    /\ mounted
    /\ \E flips \in LuckyDraws :
          /\ grid' = mutateInterval(grid, flips)
          /\ randomLeft' = randomLeft - Cardinality(flips)
    /\ isRunning' = FALSE
    /\ intervals' = clearInterval(intervalRef)
    /\ op' = "mutate"
    /\ UNCHANGED <<drawn, prev, variant, mounted, gridSize, generation, speed,
                   runningRef, intervalRef, timeouts, nextHandle,
                   steps, input, applied>>

\* The Mutate button.
mutateGridInterval ==
    /\ variant = "interval"
    /\ mounted
    /\ \E flips \in LuckyDraws :
          /\ grid' = mutateInterval(grid, flips)
          /\ randomLeft' = randomLeft - Cardinality(flips)
    /\ op' = "mutate"
    /\ UNCHANGED <<drawn, prev, variant, mounted, gridSize, isRunning, generation, speed,
                   runningRef, intervalRef, timeouts, intervals, nextHandle,
                   steps, input, applied>>

Next ==
    \/ Mount
    \/ toggleSimulation
    \/ TimeoutFires
    \/ resetSimulation
    \/ mutateGrid
    \/ MountInterval
    \/ toggleSimulationInterval
    \/ IntervalFires
    \/ resetSimulationInterval
    \/ mutateGridInterval

Spec == (Init \/ InitMounted) /\ [][Next]_vars

-----------------------------------------------------------------------------
(* Properties of the component, checked under Spec *)

\* The step timers outstanding: pending timeouts and active intervals.
Outstanding == BagCardinality(timeouts) + Cardinality(intervals)

C2_ResetZeroStopped ==
    op = "reset" => (generation = 0 /\ ~isRunning)

\* A reset has just run while a timeout armed by an earlier start was pending.
C2_Witness ==
    /\ op = "reset"
    /\ timeouts # EmptyBag

\* C3: a timer callback that fires while the run state is stopped leaves the
\* grid and the generation counter unchanged.
C3_NoStepWhileStopped ==
    [][(op' = "timer" /\ ~isRunning) => (grid' = grid /\ generation' = generation)]_vars

\* A timer callback has just fired while stopped.
C3_Witness ==
    /\ op = "timer"
    /\ ~isRunning
    /\ steps > 0

\* The grids one application of the step operation can produce from the grid.
StepOutcomes ==
    IF variant = "timeout"
    THEN {computeNextGeneration(grid, gridSize, lucky) : lucky \in LuckyDraws}
    ELSE {computeNextGenerationInterval(grid, gridSize)}

\* C4: every timer callback that steps replaces the grid by step(grid) and
\* adds exactly one to the generation; the generation is never negative and
\* always the number of step applications since the last reset.
C4_GenerationCountsSteps ==
    /\ [](generation = steps /\ generation >= 0)
    /\ [][(op' = "timer" /\ isRunning) =>
             (grid' \in StepOutcomes /\ generation' = generation + 1)]_vars

\* A timer callback has just stepped a running simulation for the second time
\* since the last reset.
C4_Witness ==
    /\ op = "timer"
    /\ isRunning
    /\ generation > 1

\* C6: the grid of a mounted component, which starts with height rows of
\* width cells, keeps these dimensions under step, mutate and reset.
C6_GridDimensions ==
    mounted =>
        /\ Len(grid) = gridSize.height
        /\ \A r \in 1 .. Len(grid) : Len(grid[r]) = gridSize.width

\* The grid has been stepped and then mutated.
C6_Witness ==
    /\ op = "mutate"
    /\ generation > 0
    /\ randomLeft < MaxRandom

\* C10: mutateGrid leaves the run state, the generation counter and the
\* outstanding timers as they were.
C10_MutateFrame ==
    [][op' = "mutate" =>
          UNCHANGED <<isRunning, runningRef, generation, timeouts, intervals>>]_vars

\* A running simulation has just been mutated, a cell flipped.
C10_Witness ==
    /\ op = "mutate"
    /\ isRunning
    /\ Outstanding > 0
    /\ randomLeft < MaxRandom

-----------------------------------------------------------------------------
(* The step operation on its own.  The grid is drawn from a family of       *)
(* inputs; SpecStep applies computeNextGeneration of either variant to it   *)
(* once, SpecIterate applies that of the interval variant MaxApply times.   *)

\* The live cells of g.
LiveCells(g) ==
    UNION {{<<c - 1, r - 1>> : c \in {k \in 1 .. Len(g[r]) : g[r][k]}} : r \in 1 .. Len(g)}

\* A set of cells moved by (dx, dy).
Translate(cells, dx, dy) == {<<p[1] + dx, p[2] + dy>> : p \in cells}

\* The 2x2 block whose top-left cell is (x, y).
BlockAt(x, y) == {<<x, y>>, <<x + 1, y>>, <<x, y + 1>>, <<x + 1, y + 1>>}

\* The glider of the patterns array moved so that its bounding box starts at (x, y).
GliderAt(x, y) == Translate(gliderPattern, x - 10, y - 9)

\* The 3x3 window of cells whose top-left cell is (x, y).
Window(x, y) == (x .. x + 2) \X (y .. y + 2)

StepGridSize == [width |-> StepWidth, height |-> StepHeight]

\* The inputs: every pattern inside the 3x3 window of the top-left corner
\* and of the bottom-right corner (a cell with every count of live neighbours
\* from 0 to 8, at a corner, on an edge and inside), and every 2x2 block and
\* every glider that fits into the grid.
InputLiveSets ==
    LET w == StepWidth
        h == StepHeight
    IN  (SUBSET Window(0, 0))
        \cup (SUBSET Window(w - 3, h - 3))
        \cup {BlockAt(x, y) : x \in 0 .. w - 2, y \in 0 .. h - 2}
        \cup {GliderAt(x, y) : x \in 0 .. w - 3, y \in 0 .. h - 3}

\* The values every variable but variant, grid and its history has here.
StepDefaults ==
    /\ mounted = TRUE
    /\ gridSize = StepGridSize
    /\ applied = 0
    /\ isRunning = FALSE
    /\ generation = 0
    /\ speed = 100 * StepWidth * StepHeight
    /\ runningRef = FALSE
    /\ intervalRef = 0
    /\ timeouts = EmptyBag
    /\ intervals = {}
    /\ nextHandle = 1
    /\ randomLeft = MaxRandom
    /\ op = "init"
    /\ steps = 0
    /\ drawn = {}

InitStep ==
    /\ variant \in Variants
    /\ \E live \in InputLiveSets : grid = GridOf(StepGridSize, live)
    /\ input = grid
    /\ prev = grid
    /\ StepDefaults

InitIterate ==
    /\ variant = "interval"
    /\ \E live \in InputLiveSets : grid = GridOf(StepGridSize, live)
    /\ input = grid
    /\ prev = grid
    /\ StepDefaults

\* computeNextGeneration of the timeout variant applied to the grid.
Step ==
    /\ variant = "timeout"
    /\ applied < 1
    /\ \E lucky \in LuckyDraws :
          /\ grid' = computeNextGeneration(grid, gridSize, lucky)
          /\ randomLeft' = randomLeft - Cardinality(lucky)
    /\ prev' = grid
    /\ applied' = applied + 1
    /\ op' = "step"
    /\ UNCHANGED <<drawn, variant, mounted, gridSize, isRunning, generation, speed,
                   runningRef, intervalRef, timeouts, intervals, nextHandle,
                   steps, input>>

\* computeNextGeneration of the interval variant applied to the grid.
StepInterval ==
    /\ variant = "interval"
    /\ applied < 1
    /\ grid' = computeNextGenerationInterval(grid, gridSize)
    /\ prev' = grid
    /\ applied' = applied + 1
    /\ op' = "step"
    /\ UNCHANGED <<drawn, variant, mounted, gridSize, isRunning, generation, speed,
                   runningRef, intervalRef, timeouts, intervals, nextHandle,
                   randomLeft, steps, input>>

\* computeNextGeneration of the interval variant applied once more.
IterateInterval ==
    /\ applied < MaxApply
    /\ grid' = computeNextGenerationInterval(grid, gridSize)
    /\ prev' = grid
    /\ applied' = applied + 1
    /\ op' = "step"
    /\ UNCHANGED <<drawn, variant, mounted, gridSize, isRunning, generation, speed,
                   runningRef, intervalRef, timeouts, intervals, nextHandle,
                   randomLeft, steps, input>>

NextStep ==
    \/ Step
    \/ StepInterval

SpecStep == InitStep /\ [][NextStep]_vars

NextIterate == IterateInterval

SpecIterate == InitIterate /\ [][NextIterate]_vars

-----------------------------------------------------------------------------
(* Properties of the step operation, checked under SpecStep and SpecIterate *)

\* The cells of the grid next to (x, y): its Moore neighbourhood, cut at the
\* edges of the grid.
MooreNeighbours(gs, x, y) ==
    {c \in Cells(gs) :
        /\ c # <<x, y>>
        /\ c[1] - x \in -1 .. 1
        /\ c[2] - y \in -1 .. 1}

\* How many Moore neighbours of (x, y) are alive in g.
LiveCount(g, gs, x, y) ==
    Cardinality({c \in MooreNeighbours(gs, x, y) : At(g, c[1], c[2])})

\* Conway's rule for the cell (x, y) of g.
ConwayAlive(g, gs, x, y) ==
    IF At(g, x, y)
    THEN LiveCount(g, gs, x, y) \in {2, 3}
    ELSE LiveCount(g, gs, x, y) = 3

\* The statement of C5 as written: in both variants a cell is alive after
\* the step exactly when Conway's rule, counted on the old grid, says so.
C5_AsWritten ==
    applied = 1 =>
        \A c \in Cells(gridSize) :
            At(grid, c[1], c[2]) <=> ConwayAlive(prev, gridSize, c[1], c[2])

\* C5, amended: the interval variant follows Conway's rule exactly; the
\* timeout variant makes alive every cell the rule makes alive and besides
\* only cells with more than one live neighbour, and follows the rule exactly
\* when no random draw succeeded.
C5_StepRule ==
    applied = 1 =>
        \A c \in Cells(gridSize) :
            LET now == At(grid, c[1], c[2])
                rule == ConwayAlive(prev, gridSize, c[1], c[2])
                count == LiveCount(prev, gridSize, c[1], c[2])
            IN  /\ variant = "interval" => (now <=> rule)
                /\ variant = "timeout" =>
                      /\ rule => now
                      /\ now => (rule \/ count > 1)
                      /\ randomLeft = MaxRandom => (now <=> rule)

\* The timeout variant has kept a cell alive that has 4 or more live
\* neighbours.
C5_Witness ==
    /\ applied = 1
    /\ variant = "timeout"
    /\ \E c \in Cells(gridSize) :
          /\ At(prev, c[1], c[2])
          /\ At(grid, c[1], c[2])
          /\ LiveCount(prev, gridSize, c[1], c[2]) > 3

\* The input is a grid whose only live cells form a 2x2 block.
BlockInput ==
    \E x \in 0 .. gridSize.width - 2, y \in 0 .. gridSize.height - 2 :
        LiveCells(input) = BlockAt(x, y)

\* The statement of C7 as written: a 2x2 block is a fixed point of the step.
C7_AsWritten ==
    (BlockInput /\ applied = 1) => grid = input

\* C7, amended: a 2x2 block is a fixed point of the step of the interval
\* variant; the step of the timeout variant keeps the four cells alive and
\* returns the block itself when no random draw succeeded.
C7_BlockStable ==
    (BlockInput /\ applied = 1) =>
        /\ variant = "interval" => grid = input
        /\ variant = "timeout" =>
              /\ LiveCells(input) \subseteq LiveCells(grid)
              /\ randomLeft = MaxRandom => grid = input

\* The step of the interval variant has been applied to a block that
\* touches no edge of the grid.
C7_Witness ==
    /\ applied = 1
    /\ variant = "interval"
    /\ LiveCells(input) = BlockAt(1, 1)
    /\ grid = input

\* The input is the glider at (x, y), the 4x4 box it moves in inside the grid.
GliderInput(x, y) ==
    /\ x >= 0 /\ x + 3 < gridSize.width
    /\ y >= 0 /\ y + 3 < gridSize.height
    /\ LiveCells(input) = GliderAt(x, y)

\* C8: four steps of the interval variant move the glider by one cell along
\* both axes and leave no other cell alive.
C8_GliderMoves ==
    \A x \in 0 .. gridSize.width, y \in 0 .. gridSize.height :
        (GliderInput(x, y) /\ applied = 4) =>
            LiveCells(grid) = GliderAt(x + 1, y + 1)

\* Four steps have been applied to a glider.
C8_Witness ==
    /\ applied = 4
    /\ GliderInput(0, 0)
    /\ Cardinality(LiveCells(grid)) = 5

\* C9: the step of either variant maps the all-dead grid to the all-dead grid.
C9_DeadStaysDead ==
    (applied = 1 /\ LiveCells(input) = {}) => LiveCells(grid) = {}

\* The step of the timeout variant has been applied to the all-dead grid
\* with a random draw that succeeded.
C9_Witness ==
    /\ applied = 1
    /\ variant = "timeout"
    /\ LiveCells(input) = {}
    /\ randomLeft < MaxRandom

-----------------------------------------------------------------------------
(* The seed operation on its own: SpecSeed constructs the component with a *)
(* grid size drawn from every size up to SeedWidth x SeedHeight, the least *)
(* size that holds all cells of the literal patterns, and runs the mount   *)
(* effect.                                                                 *)

InitSeed ==
    /\ variant \in Variants
    /\ mounted = FALSE
    /\ \E w \in 1 .. SeedWidth, h \in 1 .. SeedHeight :
          /\ gridSize = [width |-> w, height |-> h]
          /\ speed = 100 * w * h
    /\ grid = <<>>
    /\ isRunning = FALSE
    /\ generation = 0
    /\ runningRef = FALSE
    /\ intervalRef = 0
    /\ timeouts = EmptyBag
    /\ intervals = {}
    /\ nextHandle = 1
    /\ randomLeft = MaxRandom
    /\ op = "init"
    /\ steps = 0
    /\ prev = <<>>
    /\ input = <<>>
    /\ applied = 0
    /\ drawn = {}

NextSeed ==
    \/ Mount
    \/ MountInterval

SpecSeed == InitSeed /\ [][NextSeed]_vars

\* The literal pattern coordinates that lie inside a grid of size gs.
LiteralsInside(gs) ==
    {p \in blockPattern \cup gliderPattern :
        /\ p[1] \in 0 .. gs.width - 1
        /\ p[2] \in 0 .. gs.height - 1}

\* C11: whatever the random draws, createInitialGrid returns a grid: once
\* the mount effect has run, the grid has exactly height rows of exactly
\* width cells, so that no cell outside the grid is marked, and every
\* literal pattern coordinate inside the grid is alive.
C11_SeedInBounds ==
    op = "mount" =>
        /\ Len(grid) = gridSize.height
        /\ \A r \in 1 .. Len(grid) : Len(grid[r]) = gridSize.width
        /\ \A p \in LiteralsInside(gridSize) :
              p[2] < Len(grid) /\ p[1] < Len(grid[p[2] + 1]) /\ At(grid, p[1], p[2])

-----------------------------------------------------------------------------
(* Teardown.  Neither variant's effect returns a cleanup function and there *)
(* is no other effect, so unmounting runs no code of the component: refs    *)
(* and timers stay as they are.  A callback that fires afterwards calls      *)
(* setGrid on a component that is gone, which changes nothing.               *)

\* The component is unmounted.
Unmount ==
    /\ mounted
    /\ mounted' = FALSE
    /\ op' = "unmount"
    /\ UNCHANGED <<drawn, prev, variant, gridSize, grid, isRunning, generation, speed,
                   runningRef, intervalRef, timeouts, intervals, nextHandle,
                   randomLeft, steps, input, applied>>

\* A pending timeout fires after the unmount: runSimulation reads
\* runningRef.current and, when it is true, arms the next timeout.
TimeoutFiresUnmounted ==
    /\ variant = "timeout"
    /\ ~mounted
    /\ \E delay \in BagToSet(timeouts) :
          timeouts' = IF runningRef
                      THEN (timeouts (-) SetToBag({delay})) (+) SetToBag({delay})
                      ELSE timeouts (-) SetToBag({delay})
    /\ op' = "orphan"
    /\ UNCHANGED <<drawn, prev, variant, mounted, gridSize, grid, isRunning, generation,
                   speed, runningRef, intervalRef, intervals, nextHandle,
                   randomLeft, steps, input, applied>>

\* An active interval fires after the unmount.
IntervalFiresUnmounted ==
    /\ variant = "interval"
    /\ ~mounted
    /\ intervals # {}
    /\ op' = "orphan"
    /\ UNCHANGED <<drawn, prev, variant, mounted, gridSize, grid, isRunning, generation,
                   speed, runningRef, intervalRef, timeouts, intervals, nextHandle,
                   randomLeft, steps, input, applied>>

NextTeardown ==
    \/ Next
    \/ Unmount
    \/ TimeoutFiresUnmounted
    \/ IntervalFiresUnmounted

SpecTeardown == (Init \/ InitMounted) /\ [][NextTeardown]_vars

\* The component has been unmounted.
TornDown == ~mounted /\ op \in {"unmount", "orphan"}

-----------------------------------------------------------------------------
(* Mutate.  SpecMutate applies the updater of mutateGrid once to each input *)
(* grid of SpecStep and records the cells the draws selected.               *)

\* The outcomes of the per-cell draws: as LuckyDraws, and every cell at once.
MutateDraws == LuckyDraws \cup {Cells(gridSize)}

\* mutateGrid of the timeout variant applied to the grid.
Mutate ==
    /\ variant = "timeout"
    /\ applied < 1
    /\ \E flips \in MutateDraws :
          /\ grid' = mutate(grid, flips)
          /\ drawn' = flips
          /\ randomLeft' = Max(0, randomLeft - Cardinality(flips))
    /\ prev' = grid
    /\ applied' = applied + 1
    /\ op' = "mutate"
    /\ UNCHANGED <<variant, mounted, gridSize, isRunning, generation, speed,
                   runningRef, intervalRef, timeouts, intervals, nextHandle,
                   steps, input>>

\* mutateGrid of the interval variant applied to the grid.
MutateInterval ==
    /\ variant = "interval"
    /\ applied < 1
    /\ \E flips \in MutateDraws :
          /\ grid' = mutateInterval(grid, flips)
          /\ drawn' = flips
          /\ randomLeft' = Max(0, randomLeft - Cardinality(flips))
    /\ prev' = grid
    /\ applied' = applied + 1
    /\ op' = "mutate"
    /\ UNCHANGED <<variant, mounted, gridSize, isRunning, generation, speed,
                   runningRef, intervalRef, timeouts, intervals, nextHandle,
                   steps, input>>

NextMutate ==
    \/ Mutate
    \/ MutateInterval

SpecMutate == InitStep /\ [][NextMutate]_vars

\* The cell-wise negation of g.
Negation(g) == [r \in 1 .. Len(g) |-> [c \in 1 .. Len(g[r]) |-> ~g[r][c]]]

\* C13: mutate negates exactly the cells its draws selected and copies the
\* others; with no cell selected the grid is unchanged, with every cell
\* selected it is the cell-wise negation of the input.
C13_MutateFlipsSelected ==
    op = "mutate" =>
        /\ Len(grid) = Len(prev)
        /\ \A r \in 1 .. Len(prev) :
              /\ Len(grid[r]) = Len(prev[r])
              /\ \A c \in 1 .. Len(prev[r]) :
                    grid[r][c] = IF <<c - 1, r - 1>> \in drawn
                                 THEN ~prev[r][c] ELSE prev[r][c]
        /\ drawn = {} => grid = prev
        /\ drawn = Cells(gridSize) => grid = Negation(prev)

\* Every cell was selected, on a grid with live and dead cells.
C13_Witness ==
    /\ op = "mutate"
    /\ drawn = Cells(gridSize)
    /\ AliveCount(prev) > 0
    /\ AliveCount(grid) > 0

-----------------------------------------------------------------------------
(* The random term of the timeout variant's step, under SpecStep *)

\* Some outcome of the draw of cell c gives c the opposite of Conway's
\* outcome when the timeout variant's step is applied to g.
OppositePossible(g, gs, c) ==
    \E lucky \in {{}, {c}} :
        At(computeNextGeneration(g, gs, lucky), c[1], c[2])
            # ConwayAlive(g, gs, c[1], c[2])

\* The statement of C14 as written: whatever the state of a cell and the
\* number of its live neighbours, the step of the timeout variant can give
\* it the opposite of Conway's outcome.
C14_AsWritten ==
    (variant = "timeout" /\ applied = 0) =>
        \A c \in Cells(gridSize) : OppositePossible(grid, gridSize, c)

\* C14, amended: the random term of the timeout variant is not a flip and
\* depends on the neighbour count.  The opposite of Conway's outcome is
\* possible for a cell exactly when Conway's rule leaves it dead and it has
\* more than one live neighbour, and a step only ever departs from Conway's
\* outcome by making such a cell alive.
C14_RandomTerm ==
    variant = "timeout" =>
        /\ applied = 0 =>
              \A c \in Cells(gridSize) :
                  OppositePossible(grid, gridSize, c)
                      <=> /\ ~ConwayAlive(grid, gridSize, c[1], c[2])
                          /\ LiveCount(grid, gridSize, c[1], c[2]) > 1
        /\ applied = 1 =>
              \A c \in Cells(gridSize) :
                  At(grid, c[1], c[2]) # ConwayAlive(prev, gridSize, c[1], c[2])
                      => /\ At(grid, c[1], c[2])
                         /\ LiveCount(prev, gridSize, c[1], c[2]) > 1

\* The step has made alive a dead cell with exactly 2 live neighbours, and
\* has left dead a cell with fewer than 2.
C14_Witness ==
    /\ applied = 1
    /\ variant = "timeout"
    /\ \E c \in Cells(gridSize) :
          /\ ~At(prev, c[1], c[2])
          /\ At(grid, c[1], c[2])
          /\ LiveCount(prev, gridSize, c[1], c[2]) = 2
    /\ \E c \in Cells(gridSize) :
          /\ ~At(grid, c[1], c[2])
          /\ LiveCount(prev, gridSize, c[1], c[2]) < 2

-----------------------------------------------------------------------------
(* The delay of the timeout chain, under Spec *)

-----------------------------------------------------------------------------
(* The interval timer, under Spec *)

\* C16: in the interval variant the run state is running exactly when one
\* interval is active and intervalRef holds its handle, and no interval is
\* active that intervalRef does not refer to.
C16_IntervalOwned ==
    variant = "interval" =>
        /\ isRunning <=> /\ Cardinality(intervals) = 1
                         /\ \E t \in intervals : t.id = intervalRef
        /\ \A t \in intervals : t.id = intervalRef

\* The simulation has been started again after a pause or a reset: the
\* second interval is the active one and the first is gone.
C16_Witness ==
    /\ variant = "interval"
    /\ op = "toggle"
    /\ isRunning
    /\ intervalRef = 2
    /\ \A t \in intervals : t.id = 2

-----------------------------------------------------------------------------
(* The end of the timeout chain.  A timeout that is due fires as long as    *)
(* the page is open: SpecFair runs the handlers of the timeout variant     *)
(* with weak fairness of TimeoutFires.                                      *)

\* A mounted component of the timeout variant that holds the empty grid.
InitFair ==
    /\ InitMounted
    /\ variant = "timeout"
    /\ AliveCount(grid) = 0

\* The buttons and the timer of the timeout variant.
NextTimeout ==
    \/ toggleSimulation
    \/ TimeoutFires
    \/ resetSimulation
    \/ mutateGrid

SpecFair == InitFair /\ [][NextTimeout]_vars /\ WF_vars(TimeoutFires)

\* C17: in the timeout variant a callback that fires while stopped performs
\* no step and arms nothing, so one timeout fewer is pending; and once
\* stopped, unless the simulation is started again, eventually no timeout
\* is pending.
C17_ChainTerminates ==
    /\ [][(variant = "timeout" /\ ~runningRef /\ op' = "timer") =>
             /\ grid' = grid
             /\ generation' = generation
             /\ \E fired \in BagToSet(timeouts) :
                   timeouts' = timeouts (-) SetToBag({fired})]_vars
    /\ []((variant = "timeout" /\ mounted /\ ~isRunning)
             => <>(isRunning \/ timeouts = EmptyBag))

\* After a start and a reset, the pending callback has fired and has left no
\* timeout behind.
C17_Witness ==
    /\ variant = "timeout"
    /\ op = "timer"
    /\ ~isRunning
    /\ generation = 0
    /\ steps = 0
    /\ timeouts = EmptyBag

-----------------------------------------------------------------------------
(* The speed, under Spec *)

\* C18: in the timeout variant the speed is between 50 and 200 ms in every
\* state (speed is kept in units of 1/(width*height) ms).
C18_SpeedInRange ==
    variant = "timeout" =>
        /\ 50 * gridSize.width * gridSize.height <= speed
        /\ speed <= 200 * gridSize.width * gridSize.height

\* A step has left live cells and has set a speed strictly inside the range
\* that is not the initial one.
C18_Witness ==
    /\ variant = "timeout"
    /\ steps > 0
    /\ AliveCount(grid) > 0
    /\ speed > 50 * gridSize.width * gridSize.height
    /\ speed < 200 * gridSize.width * gridSize.height
    /\ speed # 100 * gridSize.width * gridSize.height

=============================================================================
